---- MODULE Spec2Model ----
(***************************************************************************)
(* Model of wikimapper.mapper.WikiMapper: a reader of a sqlite file that   *)
(* holds one table  mapping(wikipedia_id, wikipedia_title, wikidata_id).   *)
(*                                                                         *)
(* Strings that the code takes apart (titles, urls) are sequences of       *)
(* one-character strings.  A nullable value is None (SQL NULL, Python      *)
(* None) or Some(v).  The table is a sequence of rows in the order in      *)
(* which an unordered SELECT visits them.                                  *)
(***************************************************************************)
EXTENDS Integers, Sequences, FiniteSets, TLC

\* ------------------------------------------------------------------ bounds
MaxRows == 2
MaxUrlLen == 2
MaxOpenConns == 1

\* ------------------------------------------------------------- value sets
None == <<>>
Some(v) == <<v>>

Slash == "/"
UrlChars == {"a", Slash}

RECURSIVE StringsUpTo(_, _)
StringsUpTo(alphabet, n) ==
    IF n = 0 THEN {<<>>}
    ELSE LET shorter == StringsUpTo(alphabet, n - 1)
         IN  shorter \cup {Append(s, c) : s \in shorter, c \in alphabet}

\* the empty title, and two titles that differ in case only
Titles == {<<>>, <<"a">>, <<"A">>}
Urls == StringsUpTo(UrlChars, MaxUrlLen)
Ids == {"Q1", "Q2"}
AbsentId == "Q3"
PageIds == {1}

\* a Mapping Record
Rows == [wikipedia_id : {None} \cup {Some(p) : p \in PageIds},
         wikipedia_title : Titles,
         wikidata_id : {None} \cup {Some(q) : q \in Ids}]

Tables == UNION {[1..n -> Rows] : n \in 0..MaxRows}

\* what the path names on disk
FileStates == {"absent", "unopenable", "notadb", "notable", "mapping"}

VARIABLES
    constructed,  \* a WikiMapper object exists
    file,         \* what self._path_to_db names on disk
    rows,         \* the rows of table mapping, in scan order
    openConns,    \* connections opened and not yet closed
    last          \* the most recent call and how it ended

vars == <<constructed, file, rows, openConns, last>>

NoCall == [op |-> "none", arg |-> None, status |-> "return", value |-> None,
           error |-> "", opened |-> 0]

\* ---------------------------------------------------------- storage layer
\* sqlite3.connect(path): opens read-write, creating the file when missing
ConnectRaises(f) == f = "unopenable"
FileAfterConnect(f) == IF f = "absent" THEN "notable" ELSE f
ConnectError == "OperationalError: unable to open database file"

\* c.execute(SELECT ... FROM mapping ...) on an opened connection
ExecuteError(f) ==
    CASE f = "notadb" -> "DatabaseError: file is not a database"
      [] f = "notable" -> "OperationalError: no such table: mapping"
      [] OTHER -> ""

\* variant: plain SELECT, every result row is kept
NotDistinct(s) == s

\* SELECT DISTINCT: keep the first occurrence of every result row
RECURSIVE Distinct(_)
Distinct(s) ==
    IF s = <<>> THEN <<>>
    ELSE LET front == Distinct(SubSeq(s, 1, Len(s) - 1))
             x == s[Len(s)]
         IN  IF \E i \in 1..Len(front) : front[i] = x THEN front
             ELSE Append(front, x)

\* ------------------------------------------------------------ the queries
Lower(c) == IF c = "A" THEN "a" ELSE c
LowerStr(t) == [i \in 1..Len(t) |-> Lower(t[i])]

\* variant: the comparison ignores case (COLLATE NOCASE)
TitleMatchesNoCase(r, page_title) ==
    LowerStr(r.wikipedia_title) = LowerStr(page_title)

\* WHERE wikipedia_title=?  (BINARY collation: exact, case-sensitive)
TitleMatches(r, page_title) == r.wikipedia_title = page_title

\* variant: the id parameter is not compared
IdMatchesAnyId(r, wikidata_id) == r.wikidata_id # None

\* WHERE wikidata_id =?  (NULL = x is never true)
IdMatches(r, wikidata_id) == r.wikidata_id = Some(wikidata_id)

\* WHERE wikidata_id IS NOT NULL
HasWikidataId(r) == r.wikidata_id # None

\* SELECT wikidata_id FROM mapping WHERE wikipedia_title=?
SelectIdByTitle(tbl, page_title) ==
    LET hit == SelectSeq(tbl, LAMBDA r : TitleMatches(r, page_title))
    IN  [i \in 1..Len(hit) |-> <<hit[i].wikidata_id>>]

\* variant: a row only when the result holds exactly one
FetchOneIfSingle(results) == IF Len(results) = 1 THEN results[1] ELSE None

\* c.fetchone(): the first result row, or None
FetchOne(results) == IF results = <<>> THEN None ELSE results[1]

\* if result is not None and result[0] is not None: return result[0]
TitleToIdReturn(result) ==
    IF result # None /\ result[1] # None THEN result[1] ELSE None

\* SELECT DISTINCT wikipedia_title FROM mapping WHERE wikidata_id =?
SelectTitlesById(tbl, wikidata_id) ==
    LET hit == SelectSeq(tbl, LAMBDA r : IdMatches(r, wikidata_id))
    IN  Distinct([i \in 1..Len(hit) |-> <<hit[i].wikipedia_title>>])

\* variant: len(results) > 1
IdToTitleReturnIfSeveral(results) ==
    IF Len(results) > 1 THEN Some(results[1][1]) ELSE None

\* if len(results) >= 1: return results[0][0]; return None
IdToTitleReturn(results) ==
    IF Len(results) >= 1 THEN Some(results[1][1]) ELSE None

\* SELECT DISTINCT wikipedia_title, wikidata_id ... WHERE wikidata_id IS NOT NULL
SelectFullMapping(tbl) ==
    LET hit == SelectSeq(tbl, HasWikidataId)
    IN  Distinct([i \in 1..Len(hit) |->
                    <<hit[i].wikipedia_title, hit[i].wikidata_id>>])

\* variant: without the WHERE clause
SelectFullMappingWithPidUnfiltered(tbl) ==
    Distinct([i \in 1..Len(tbl) |->
                <<tbl[i].wikipedia_id, tbl[i].wikipedia_title,
                  tbl[i].wikidata_id>>])

\* SELECT DISTINCT wikipedia_id, wikipedia_title, wikidata_id ... IS NOT NULL
SelectFullMappingWithPid(tbl) ==
    LET hit == SelectSeq(tbl, HasWikidataId)
    IN  Distinct([i \in 1..Len(hit) |->
                    <<hit[i].wikipedia_id, hit[i].wikipedia_title,
                      hit[i].wikidata_id>>])

\* wiki_url.rsplit("/", 1): split once at the last separator, if there is one
RECURSIVE RSplitAt(_, _)
RSplitAt(s, i) ==
    IF i = 0 THEN <<s>>
    ELSE IF s[i] = Slash THEN <<SubSeq(s, 1, i - 1), SubSeq(s, i + 1, Len(s))>>
    ELSE RSplitAt(s, i - 1)

\* variant: wiki_url.split("/", 1), split once at the first separator
RECURSIVE SplitAt(_, _)
SplitAt(s, i) ==
    IF i > Len(s) THEN <<s>>
    ELSE IF s[i] = Slash THEN <<SubSeq(s, 1, i - 1), SubSeq(s, i + 1, Len(s))>>
    ELSE SplitAt(s, i + 1)

SplitFirst(wiki_url) == SplitAt(wiki_url, 1)

RSplit(wiki_url) == RSplitAt(wiki_url, Len(wiki_url))

\* wiki_url.rsplit("/", 1)[-1]
UrlTitle(wiki_url) == LET parts == RSplit(wiki_url) IN parts[Len(parts)]

\* ------------------------------------------------- the scoped connection
\* variant: the exit swallows the exception
ConnectionExitSwallows(error, value) ==
    [status |-> "return", value |-> IF error # "" THEN None ELSE value,
     error |-> ""]

\* Connection.__exit__: commit, or roll back and let the exception through.
\* It does not close the connection.
ConnectionExit(error, value) ==
    IF error # "" THEN [status |-> "raise", value |-> None, error |-> error]
    ELSE [status |-> "return", value |-> value, error |-> ""]

\* connections of this call that are still open when the with block is left
LeftOpenAtExit(opened) == opened

\* with sqlite3.connect(self._path_to_db) as conn: ... execute ... fetch
WithConnection(f, value) ==
    IF ConnectRaises(f)
    THEN [status |-> "raise", value |-> None, error |-> ConnectError,
          opened |-> 0, file |-> f]
    ELSE LET g == FileAfterConnect(f)
             x == ConnectionExit(ExecuteError(g), value)
         IN  [status |-> x.status, value |-> x.value, error |-> x.error,
              opened |-> 1, file |-> g]

\* ------------------------------------------------- the five operations
TitleToIdCall(f, tbl, page_title) ==
    LET out == WithConnection(f, FetchOne(SelectIdByTitle(tbl, page_title)))
    IN  IF out.status = "return"
        THEN [out EXCEPT !.value = TitleToIdReturn(out.value)]
        ELSE out

UrlToIdCall(f, tbl, wiki_url) == TitleToIdCall(f, tbl, UrlTitle(wiki_url))

IdToTitleCall(f, tbl, wikidata_id) ==
    LET out == WithConnection(f, SelectTitlesById(tbl, wikidata_id))
    IN  IF out.status = "return"
        THEN [out EXCEPT !.value = IdToTitleReturn(out.value)]
        ELSE out

GetFullMappingCall(f, tbl) == WithConnection(f, SelectFullMapping(tbl))

GetFullMappingWithPidCall(f, tbl) ==
    WithConnection(f, SelectFullMappingWithPid(tbl))

\* the caller gets the outcome; the disk and the open connections keep it
Finish(op, arg, out) ==
    /\ last' = [op |-> op, arg |-> arg, status |-> out.status,
                value |-> out.value, error |-> out.error,
                opened |-> out.opened]
    /\ file' = out.file
    /\ openConns' = openConns + LeftOpenAtExit(out.opened)
    /\ UNCHANGED <<constructed, rows>>

CanCall == constructed /\ openConns < MaxOpenConns

\* ---------------------------------------------------------------- actions
Init ==
    /\ constructed = FALSE
    /\ file \in FileStates
    /\ rows \in Tables
    /\ (file # "mapping" => rows = <<>>)
    /\ openConns = 0
    /\ last = NoCall

\* WikiMapper(path_to_db): stores the path
Construct ==
    /\ ~constructed
    /\ constructed' = TRUE
    /\ last' = [NoCall EXCEPT !.op = "__init__"]
    /\ UNCHANGED <<file, rows, openConns>>

title_to_id(page_title) ==
    /\ CanCall
    /\ Finish("title_to_id", page_title, TitleToIdCall(file, rows, page_title))

url_to_id(wiki_url) ==
    /\ CanCall
    /\ Finish("url_to_id", wiki_url, UrlToIdCall(file, rows, wiki_url))

id_to_title(wikidata_id) ==
    /\ CanCall
    /\ Finish("id_to_title", wikidata_id,
              IdToTitleCall(file, rows, wikidata_id))

get_full_mapping ==
    /\ CanCall
    /\ Finish("get_full_mapping", None, GetFullMappingCall(file, rows))

get_full_mapping_with_pid ==
    /\ CanCall
    /\ Finish("get_full_mapping_with_pid", None,
              GetFullMappingWithPidCall(file, rows))

\* the interpreter finalizes connections nobody refers to any more
Collect ==
    /\ openConns > 0
    /\ openConns' = 0
    /\ UNCHANGED <<constructed, file, rows, last>>

Next ==
    \/ Construct
    \/ \E t \in Titles : title_to_id(t)
    \/ \E u \in Urls : url_to_id(u)
    \/ \E q \in Ids \cup {AbsentId} : id_to_title(q)
    \/ get_full_mapping
    \/ get_full_mapping_with_pid
    \/ Collect

Spec == Init /\ [][Next]_vars

TypeOK ==
    /\ constructed \in BOOLEAN
    /\ file \in FileStates
    /\ rows \in Tables
    /\ openConns \in 0..MaxOpenConns
    /\ last.status \in {"return", "raise"}

\* ----------------------------------------------------------- properties
QueryOps == {"title_to_id", "url_to_id", "id_to_title", "get_full_mapping",
             "get_full_mapping_with_pid"}

RowIdx == 1..Len(rows)
Range(s) == {s[i] : i \in 1..Len(s)}
Returned(op) == last.op = op /\ last.status = "return"

\* the rows whose wikipedia_title is t
Titled(t) == {i \in RowIdx : rows[i].wikipedia_title = t}

\* C1 as stated: title_to_id(t) returns q for every row (t, q) with q
\* non-null, whatever else the table holds.
C1_EveryRowsId ==
    (last.op = "title_to_id" /\ file = "mapping") =>
        \A i \in Titled(last.arg) :
            rows[i].wikidata_id # None =>
                last.status = "return" /\ last.value = rows[i].wikidata_id

\* C1 amended: title_to_id(t) returns q for every row (t, q) with q non-null
\* such that every row titled t carries the wikidata_id q.
C1_AgreedRowsId ==
    (last.op = "title_to_id" /\ file = "mapping") =>
        \A i \in Titled(last.arg) :
            (/\ rows[i].wikidata_id # None
             /\ \A j \in Titled(last.arg) :
                    rows[j].wikidata_id = rows[i].wikidata_id)
            => last.status = "return" /\ last.value = rows[i].wikidata_id

C1_Witness ==
    /\ Returned("title_to_id")
    /\ last.value # None
    /\ Cardinality(Titled(last.arg)) >= 2

\* C2: title_to_id returns None, without raising, when no row has the title
\* (compared exactly) and when the rows that have it carry a null wikidata_id.
C2_NotFound ==
    (/\ last.op = "title_to_id"
     /\ file = "mapping"
     /\ \A i \in Titled(last.arg) : rows[i].wikidata_id = None)
    => last.status = "return" /\ last.value = None

C2_Witness ==
    /\ Returned("title_to_id")
    /\ last.value = None
    /\ \E i \in RowIdx : /\ LowerStr(rows[i].wikipedia_title) = LowerStr(last.arg)
                         /\ rows[i].wikipedia_title # last.arg
                         /\ rows[i].wikidata_id # None

\* what follows the last "/" of u: all of u when u has no "/"
LastSegments(u) ==
    {SubSeq(u, k + 1, Len(u)) : k \in
        {n \in 0..Len(u) : /\ \A i \in (n + 1)..Len(u) : u[i] # Slash
                           /\ n = 0 \/ u[n] = Slash}}

\* C3: a call url_to_id(u) ends exactly as title_to_id(s) ends from the same
\* state, s being what follows the last "/" of u.
C3_UrlDelegates ==
    [][last'.op = "url_to_id" =>
          \E s \in LastSegments(last'.arg) :
              LET out == TitleToIdCall(file, rows, s)
              IN  /\ last'.status = out.status
                  /\ last'.value = out.value
                  /\ last'.error = out.error]_vars

C3_Witness ==
    /\ Returned("url_to_id")
    /\ last.value # None
    /\ Cardinality({i \in 1..Len(last.arg) : last.arg[i] = Slash}) >= 2

\* the titles of the rows whose wikidata_id is q
TitlesOf(q) == {rows[i].wikipedia_title : i \in {j \in RowIdx : rows[j].wikidata_id = Some(q)}}

\* C4: id_to_title(q) returns one title of a row whose wikidata_id is q when
\* there is such a row, and None exactly when there is none.
C4_OneOfTheTitles ==
    (last.op = "id_to_title" /\ file = "mapping") =>
        /\ last.status = "return"
        /\ (last.value = None <=> TitlesOf(last.arg) = {})
        /\ (TitlesOf(last.arg) # {} =>
                \E t \in TitlesOf(last.arg) : last.value = Some(t))

C4_Witness ==
    /\ Returned("id_to_title")
    /\ last.value # None
    /\ Cardinality(TitlesOf(last.arg)) >= 2

\* the (title, id) pairs of the rows with a non-null id
Pairs == {<<rows[i].wikipedia_title, rows[i].wikidata_id>> :
            i \in {j \in RowIdx : rows[j].wikidata_id # None}}

\* C5: get_full_mapping returns every (title, id) pair of a row with non-null
\* id, each exactly once, and no pair with a null id.
C5_DistinctPairs ==
    (last.op = "get_full_mapping" /\ file = "mapping") =>
        /\ last.status = "return"
        /\ Range(last.value) = Pairs
        /\ \A i, j \in 1..Len(last.value) :
               last.value[i] = last.value[j] => i = j
        /\ \A i \in 1..Len(last.value) : last.value[i][2] # None

C5_Witness ==
    /\ Returned("get_full_mapping")
    /\ Len(last.value) = 1
    /\ \E i, j \in RowIdx :
           /\ rows[i].wikipedia_id # rows[j].wikipedia_id
           /\ rows[i].wikipedia_title = rows[j].wikipedia_title
           /\ rows[i].wikidata_id = rows[j].wikidata_id
           /\ rows[i].wikidata_id # None

\* C6: the triples of get_full_mapping_with_pid, projected onto (title, id),
\* are as a set the pairs of get_full_mapping.
C6_Projection ==
    last.op = "get_full_mapping_with_pid" =>
        LET other == GetFullMappingCall(file, rows)
        IN  /\ last.status = other.status
            /\ last.status = "return" =>
                   {<<v[2], v[3]>> : v \in Range(last.value)}
                       = Range(other.value)

C6_Witness ==
    /\ Returned("get_full_mapping_with_pid")
    /\ \E v, w \in Range(last.value) :
           v # w /\ v[1] = None /\ v[2] = w[2] /\ v[3] = w[3]

\* C7: the connection a call opens is closed before the call returns, so no
\* connection is open between calls.
C7_NoOpenConnection == openConns = 0

\* C8: no call changes the mapping records or the file the path names.
C8_ReadOnly == [][file' = file /\ rows' = rows]_vars

\* C9: construction does no I/O and does not fail; when the path names no
\* valid mapping database every query raises the storage layer's error.
C9_StorageErrorPropagates ==
    /\ last.op = "__init__" => last.status = "return" /\ last.opened = 0
    /\ (last.op \in QueryOps /\ file # "mapping") =>
           /\ last.status = "raise"
           /\ last.error = IF ConnectRaises(file) THEN ConnectError
                           ELSE ExecuteError(file)
           /\ last.error # ""

C9_Witness ==
    /\ last.op = "get_full_mapping"
    /\ last.status = "raise"
    /\ file = "notable"

UniqueTitles == \A i, j \in RowIdx :
    rows[i].wikipedia_title = rows[j].wikipedia_title => i = j

\* C10: with every title in at most one row, title_to_id undoes id_to_title,
\* and id_to_title after title_to_id gives a title with the same id.
C10_RoundTrip ==
    UniqueTitles =>
        /\ (Returned("id_to_title") /\ last.value # None) =>
               LET back == TitleToIdCall(file, rows, last.value[1])
               IN  back.status = "return" /\ back.value = Some(last.arg)
        /\ (Returned("title_to_id") /\ last.value # None) =>
               LET t == IdToTitleCall(file, rows, last.value[1])
               IN  /\ t.status = "return" /\ t.value # None
                   /\ TitleToIdCall(file, rows, t.value[1]).value = last.value

C10_Witness ==
    /\ UniqueTitles
    /\ Returned("id_to_title")
    /\ last.value # None
    /\ Cardinality(TitlesOf(last.arg)) >= 2

====
